---- MODULE Spec2Model ----
(***************************************************************************)
(* Model of inst/python/getdata_dem.py: the DEM download helper            *)
(* (get_capabilities, getwcs_dem, dem2slope, dem2aspect, test_getwcs_dem). *)
(* Strings are sequences of one-character strings, so that the path and    *)
(* file-name manipulations are computed, not assumed.                      *)
(***************************************************************************)
EXTENDS Integers, Sequences, FiniteSets, TLC

VARIABLES content, today, dirs, files, last, prev, ncalls, cap, test, nm

vars == <<content, today, dirs, files, last, prev, ncalls, cap, test, nm>>

(* ------------------------------ bounds --------------------------------- *)

\* number of getwcs_dem calls explored in one behaviour
MaxCalls == 2

\* number of UTC days the clock can show
MaxDay == 2

\* longest directory part X tried for dem2slope / dem2aspect
MaxX == 3

(* --------------------------- string helpers ---------------------------- *)

SLASH == "/"

\* str.replace(' ', '_') of line 162, character by character
Replace(s, old, new) == [i \in 1..Len(s) |-> IF s[i] = old THEN new ELSE s[i]]

\* index of the last '/' of p, 0 when there is none (p.rfind('/') + 1)
RFindSlash(p) ==
    LET S == {i \in 1..Len(p) : p[i] = SLASH}
    IN IF S = {} THEN 0 ELSE CHOOSE i \in S : \A j \in S : j <= i

AllSlashes(s) == \A i \in 1..Len(s) : s[i] = SLASH

\* s.rstrip('/')
RECURSIVE RStripSlash(_)
RStripSlash(s) ==
    IF s = <<>> THEN <<>>
    ELSE IF s[Len(s)] = SLASH THEN RStripSlash(SubSeq(s, 1, Len(s) - 1))
    ELSE s

\* os.path.basename: everything after the last '/'
Basename(p) == SubSeq(p, RFindSlash(p) + 1, Len(p))

\* os.path.dirname: everything up to the last '/', trailing slashes removed
\* unless the head consists of slashes only
Dirname(p) ==
    LET head == SubSeq(p, 1, RFindSlash(p))
    IN IF head # <<>> /\ ~AllSlashes(head) THEN RStripSlash(head) ELSE head

\* os.path.join(a, b) for two components
Join(a, b) ==
    IF b # <<>> /\ b[1] = SLASH THEN b
    ELSE IF a = <<>> \/ a[Len(a)] = SLASH THEN a \o b
    ELSE a \o <<SLASH>> \o b

SlopePrefix == <<"S", "l", "o", "p", "e", "_">>

AspectPrefix == <<"A", "s", "p", "e", "c", "t", "_">>

TifSuffix == <<".", "t", "i", "f">>

(* ------------------------ dem2slope / dem2aspect ----------------------- *)

\* mutant of SlopeName: the directory of the input is forgotten
SlopeNameCwd(fname_dem) == SlopePrefix \o Basename(fname_dem)

\* the path dem2slope computes and passes to gdal.DEMProcessing
SlopeName(fname_dem) == Join(Dirname(fname_dem), SlopePrefix \o Basename(fname_dem))

\* the path dem2aspect computes and passes to gdal.DEMProcessing
AspectName(fname_dem) == Join(Dirname(fname_dem), AspectPrefix \o Basename(fname_dem))

\* directory parts X tried: every string over this alphabet up to MaxX long
PathChars == {"/", "a", "."}

RECURSIVE StringsUpTo(_)
StringsUpTo(n) ==
    IF n = 0 THEN {<<>>}
    ELSE LET shorter == StringsUpTo(n - 1)
         IN shorter \cup {Append(s, c) : s \in {t \in shorter : Len(t) = n - 1}, c \in PathChars}

DemTif == <<"d", "e", "m", ".", "t", "i", "f">>

NoName ==
    [op |-> "none", fname_dem |-> <<>>, raised |-> FALSE, out |-> <<>>, gdal |-> <<>>]

\* what can fail in dem2slope / dem2aspect: gdal.DEMProcessing (lines 213, 231)
\* or the print after it (lines 214, 232); either error propagates
NameFaults == {"none", "gdal", "print"}

\* dem2slope(fname_dem): the gdal.DEMProcessing call and, unless a step raises,
\* the returned name
Dem2slopeCall(fname_dem, fault) ==
    LET fname_out == SlopeName(fname_dem)
    IN [op |-> "slope", fname_dem |-> fname_dem, raised |-> fault # "none",
        out |-> IF fault = "none" THEN fname_out ELSE <<>>,
        gdal |-> <<fname_out, fname_dem>>]

\* dem2aspect(fname_dem): the gdal.DEMProcessing call and, unless a step raises,
\* the returned name
Dem2aspectCall(fname_dem, fault) ==
    LET fname_out == AspectName(fname_dem)
    IN [op |-> "aspect", fname_dem |-> fname_dem, raised |-> fault # "none",
        out |-> IF fault = "none" THEN fname_out ELSE <<>>,
        gdal |-> <<fname_out, fname_dem>>]

(* --------------------------- python values ----------------------------- *)

\* the failure sentinel returned on line 181
False == [py |-> "False"]

\* a str value
Str(s) == [py |-> "str", s |-> s]

\* marks "no value": the function was not called or raised
NoValue == [py |-> "none"]

\* resolution argument: None or a number of arc seconds
NoneRes == [isNone |-> TRUE, n |-> 0]

Num(n) == [isNone |-> FALSE, n |-> n]

(* ------------------------------ metadata ------------------------------- *)

\* get_metadict()['resolution_arcsec']
resolution_arcsec == 1

\* the divisor turning arc seconds into degrees
ArcsecPerDegree == 3600

RECURSIVE Gcd(_, _)
Gcd(a, b) == IF b = 0 THEN a ELSE Gcd(b, a % b)

\* resolution / 3600 as an exact fraction in lowest terms
Degrees(n) == LET g == Gcd(n, ArcsecPerDegree) IN <<n \div g, ArcsecPerDegree \div g>>

(* ------------------------------ the clock ------------------------------ *)

\* the UTC date shown on day number d of the run
DateOf(d) == <<2022, 1, 8 + d>>

Digits == <<"0", "1", "2", "3", "4", "5", "6", "7", "8", "9">>

Digit(n) == Digits[n + 1]

\* strftime('%Y-%m-%d')
Strftime(date) ==
    <<Digit((date[1] \div 1000) % 10), Digit((date[1] \div 100) % 10),
      Digit((date[1] \div 10) % 10), Digit(date[1] % 10), "-",
      Digit((date[2] \div 10) % 10), Digit(date[2] % 10), "-",
      Digit((date[3] \div 10) % 10), Digit(date[3] % 10)>>

(* ----------------------------- the service ----------------------------- *)

\* bounding boxes are kept in tenths of the CRS unit, so that 153.9 is 1539
Layer(key, title, abstract, bbox) ==
    [key |-> key, title |-> title, abstract |-> abstract, bbox |-> bbox]

\* what the WCS endpoint may advertise: its layers, in the order it reports them
Contents ==
    { <<Layer("1", <<"D", " ", "G">>, "dem", <<1130, -440, 1540, -100>>)>>,
      <<Layer("0", <<"X">>, "other", <<0, 0, 10, 10>>),
        Layer("1", <<"E", " ", "1", " ", "s">>, "dem2", <<1130, -440, 1540, -100>>)>>,
      <<Layer("2", <<"Z">>, "aux", <<0, 0, 20, 20>>)>> }

\* wcs.contents.keys()
Keys(c) == [i \in 1..Len(c) |-> c[i].key]

HasLayer(c, key) == \E i \in 1..Len(c) : c[i].key = key

\* wcs[key]
Lookup(c, key) == c[CHOOSE i \in 1..Len(c) : c[i].key = key]

(* --------------------------- the file system --------------------------- *)

\* the directory a path names, trailing slashes dropped
DirOf(path) == RStripSlash(path)

\* os.makedirs(path, exist_ok=True): the directory and all its parents
Makedirs(path) ==
    LET p == DirOf(path)
    IN {DirOf(SubSeq(p, 1, i)) : i \in {j \in 1..Len(p) : j = Len(p) \/ p[j + 1] = SLASH}}
         \ {<<>>}

\* os.makedirs that fails: it makes the missing directories from the outermost
\* inwards and stops at the one it cannot make, after making k of them
MakedirsUntil(path, d, k) ==
    LET missing == Makedirs(path) \ d
    IN {x \in missing : Cardinality({y \in missing : Len(y) < Len(x)}) < k}

\* how many directories a failing os.makedirs(path) may have made before it
\* fails: fewer than are missing, and none when none is missing (exist_ok only
\* forgives that the directory exists, not that it cannot be reached)
MadeBeforeFailure(path, d) ==
    LET missing == Cardinality(Makedirs(path) \ d)
    IN IF missing = 0 THEN {0} ELSE 0..(missing - 1)

\* mutant of Exists: the check of line 164 never finds the file
ExistsNever(p, d, f) == FALSE

\* os.path.exists, in a file system with directories d and files f
Exists(p, d, f) == p \in DOMAIN f \/ (DirOf(p) # <<>> /\ DirOf(p) \in d)

\* what a file holds: nothing yet (opened, never written), the beginning of a
\* response body, or all of it; n is the number of the call that wrote it, so
\* that a rewrite of the same bytes still shows
Complete(n) == [kind |-> "complete", by |-> n]

Partial(n) == [kind |-> "partial", by |-> n]

Empty(n) == [kind |-> "empty", by |-> n]

(* ------------------------------ getwcs_dem ----------------------------- *)

\* bbox = (114, -44, 153.9, -11) of line 240, in tenths of a degree
Grid == [bbox |-> <<1140, -440, 1539, -110>>, crs |-> "EPSG:4326"]

\* another area, in tenths of a metre
Mercator ==
    [bbox |-> <<126900000, -54650000, 171400000, -12320000>>, crs |-> "EPSG:3857"]

Flat == <<"o">>

Nested == <<"q", "/", "r", "/">>

Call(outpath, area, resolution) ==
    [outpath |-> outpath, bbox |-> area.bbox, resolution |-> resolution, crs |-> area.crs]

\* the calls tried: two output directories (one nested, with a trailing slash),
\* two areas each in its own CRS, and resolution None, 1 and 100
Args ==
    { Call(Flat, Grid, NoneRes), Call(Flat, Grid, Num(1)), Call(Flat, Mercator, Num(100)),
      Call(Nested, Mercator, NoneRes) }

\* the step of getwcs_dem at which the environment makes an operation fail
\* ("print": the print of line 165 or 178 fails, for instance stdout is closed)
Faults ==
    {"none", "makedirs", "connect", "getCoverage", "open", "read", "write", "print"}

\* the points at which that step can fail: os.makedirs after any number of the
\* missing directories, every other step at one point
FailurePoints(a, fault) ==
    IF fault = "makedirs" THEN MadeBeforeFailure(a.outpath, dirs) ELSE {0}

\* mutant of NativeIfNone: the substitution of lines 153-154 is left out
NativeIfNoneSkipped(resolution) == resolution

\* lines 153-154
NativeIfNone(resolution) ==
    IF resolution.isNone THEN Num(resolution_arcsec) ELSE resolution

\* the keyword arguments of wcs.getCoverage, lines 167-174
CoverageRequest(a, resolution) ==
    [identifier |-> "1", bbox |-> a.bbox, format |-> "GeoTIFF", crs |-> a.crs,
     resx |-> Degrees(resolution.n), resy |-> Degrees(resolution.n), Styles |-> "tc"]

\* mutant of FnameOut: the spaces of the title are kept
FnameOutRaw(layername, date) == layername \o <<"_">> \o Strftime(date) \o TifSuffix

\* mutant of FnameOut: the name also carries the number of the call
FnameOutStamped(layername, date) ==
    Replace(layername, " ", "_") \o <<"_">> \o Strftime(date) \o <<"_", Digit(ncalls)>>
        \o TifSuffix

\* lines 160-163
FnameOut(layername, date) ==
    Replace(layername, " ", "_") \o <<"_">> \o Strftime(date) \o TifSuffix

Outfname(outpath, layername, date) == Join(outpath, FnameOut(layername, date))

NoCall ==
    [called |-> FALSE, args |-> [outpath |-> <<>>, bbox |-> <<>>, resolution |-> NoneRes, crs |-> ""],
     day |-> 0, raised |-> FALSE, ret |-> NoValue, layername |-> <<>>,
     outfname |-> NoValue, reqs |-> <<>>, conns |-> 0, newdir |-> FALSE,
     print_failed |-> FALSE]

\* one outcome of getwcs_dem: what the call reports and the file system it
\* leaves (print_failed: the print of line 165 or 178 raised)
Outcome(a, raised, ret, layername, outfname, reqs, conns, d, f) ==
    [rec |-> [called |-> TRUE, args |-> a, day |-> today, raised |-> raised, ret |-> ret,
              layername |-> layername, outfname |-> outfname, reqs |-> reqs,
              conns |-> conns, newdir |-> DirOf(a.outpath) \notin dirs,
              print_failed |-> FALSE],
     dirs |-> d, files |-> f]

\* the try block of getwcs_dem from the existence test on, lines 164-178, for
\* the layer title and the output path of lines 160-163
Transfer(a, resolution, fault, dirs1, layername, outfname) ==
    LET req == CoverageRequest(a, resolution)
        failed(reqs, f) ==
            Outcome(a, FALSE, False, layername, Str(outfname), reqs, 1, dirs1, f)
        unprinted(o) == [o EXCEPT !.rec.print_failed = TRUE]
    IN IF Exists(outfname, dirs1, files)
       THEN IF fault = "print" THEN unprinted(failed(<<>>, files))
            ELSE Outcome(a, FALSE, Str(outfname), layername, Str(outfname), <<>>, 1,
                         dirs1, files)
       ELSE IF fault = "getCoverage" THEN failed(<<req>>, files)
       ELSE IF fault = "open" THEN failed(<<req>>, files)
       ELSE IF fault = "read" THEN failed(<<req>>, (outfname :> Empty(ncalls + 1)) @@ files)
       ELSE IF fault = "write" THEN failed(<<req>>, (outfname :> Partial(ncalls + 1)) @@ files)
       ELSE IF fault = "print"
       THEN unprinted(failed(<<req>>, (outfname :> Complete(ncalls + 1)) @@ files))
       ELSE Outcome(a, FALSE, Str(outfname), layername, Str(outfname), <<req>>, 1,
                    dirs1, (outfname :> Complete(ncalls + 1)) @@ files)

\* the try block of getwcs_dem after the connection is made, lines 160-178
\* (a set of one outcome)
Download(a, resolution, fault, dirs1) ==
    { Transfer(a, resolution, fault, dirs1, layername,
               Outfname(a.outpath, layername, DateOf(today))) :
        layername \in {Lookup(content, "1").title} }

\* getwcs_dem up to the except block, lines 153-178 (a set of one outcome);
\* when the fault is "makedirs", k directories are made before os.makedirs fails
Try(a, fault, k) ==
    IF fault = "makedirs"
    THEN \* os.makedirs is called before the try block: its error propagates
         { Outcome(a, TRUE, NoValue, <<>>, NoValue, <<>>, 0,
                   dirs \cup MakedirsUntil(a.outpath, dirs, k), files) }
    ELSE UNION { IF fault = "connect" \/ ~HasLayer(content, "1")
                 THEN { Outcome(a, FALSE, False, <<>>, NoValue, <<>>, 1, dirs1, files) }
                 ELSE Download(a, NativeIfNone(a.resolution), fault, dirs1) :
                   dirs1 \in {dirs \cup Makedirs(a.outpath)} }

\* the except block, lines 179-181: print('Download failed') and return False,
\* unless that print fails too, and then its error propagates
Except(o) ==
    IF o.rec.ret = False
    THEN {o, [o EXCEPT !.rec.raised = TRUE, !.rec.ret = NoValue]}
    ELSE {o}

\* getwcs_dem(outpath, bbox, resolution, url, crs), lines 121-182: the ways the
\* call can end when the environment fails it at step fault
GetwcsDem(a, fault, k) == UNION { Except(o) : o \in Try(a, fault, k) }

(* --------------------------- get_capabilities -------------------------- *)

NoCap ==
    [called |-> FALSE, raised |-> FALSE, conns |-> 0, service |-> <<>>,
     keys |-> <<>>, title_list |-> <<>>, description_list |-> <<>>, bbox_list |-> <<>>]

\* mutant of CapLoop: entries are put at the front of the lists
RECURSIVE CapLoopPrepend(_, _, _, _, _, _)
CapLoopPrepend(c, keys, i, title_list, description_list, bbox_list) ==
    IF i > Len(keys)
    THEN [title_list |-> title_list, description_list |-> description_list,
          bbox_list |-> bbox_list]
    ELSE CapLoopPrepend(c, keys, i + 1,
                        <<Lookup(c, keys[i]).title>> \o title_list,
                        <<Lookup(c, keys[i]).abstract>> \o description_list,
                        <<Lookup(c, keys[i]).boundingBoxWGS84>> \o bbox_list)

\* the loop of lines 108-116 over keys[i..], appending to the three lists
RECURSIVE CapLoop(_, _, _, _, _, _)
CapLoop(c, keys, i, title_list, description_list, bbox_list) ==
    IF i > Len(keys)
    THEN [title_list |-> title_list, description_list |-> description_list,
          bbox_list |-> bbox_list]
    ELSE CapLoop(c, keys, i + 1,
                 Append(title_list, Lookup(c, keys[i]).title),
                 Append(description_list, Lookup(c, keys[i]).abstract),
                 Append(bbox_list, Lookup(c, keys[i]).boundingBoxWGS84))

\* the layers as owslib presents them: wcs[key].title, .abstract, .boundingBoxWGS84
Wcs(c) ==
    [i \in 1..Len(c) |->
        [key |-> c[i].key, title |-> c[i].title, abstract |-> c[i].abstract,
         boundingBoxWGS84 |-> c[i].bbox]]

\* what can fail in get_capabilities: the connection (line 98) or a print
\* (lines 104-116); either error propagates
CapFaults == {"connect", "print"}

\* get_capabilities(url), lines 76-118
GetCapabilities(fault) ==
    IF fault \in CapFaults
    THEN [NoCap EXCEPT !.called = TRUE, !.raised = TRUE, !.conns = 1, !.service = content]
    ELSE LET keys == Keys(content)
             lists == CapLoop(Wcs(content), keys, 1, <<>>, <<>>, <<>>)
         IN [called |-> TRUE, raised |-> FALSE, conns |-> 1, service |-> content,
             keys |-> keys, title_list |-> lists.title_list,
             description_list |-> lists.description_list, bbox_list |-> lists.bbox_list]

(* ----------------------------- test_getwcs_dem ------------------------- *)

\* resolution = 100, line 241
TestResolution == 100

\* the arguments test_getwcs_dem passes to getwcs_dem, lines 236-248
TestArgs ==
    [outpath |-> <<".", "/", "t", "/">>, bbox |-> Grid.bbox,
     resolution |-> Num(TestResolution), crs |-> Grid.crs]

\* the record of a run of test_getwcs_dem; stage "getwcs_dem" with ran FALSE
\* means line 245 has returned and line 248 is next
NoTest ==
    [ran |-> FALSE, raised |-> FALSE, stage |-> "", outfname |-> NoValue,
     slope_arg |-> NoValue, aspect_arg |-> NoValue, plot_arg |-> NoValue]

\* a raster gdal and rasterio can read: a completely written coverage
Readable(f, p) == p \in DOMAIN f /\ f[p].kind = "complete"

\* the print of test_getwcs_dem, dem2slope or dem2aspect that fails, if any
\* (lines 250, 214, 232)
TestPrints == {"none", "print250", "print214", "print232"}

\* lines 248-254 of test_getwcs_dem, given how getwcs_dem ended (raised, or
\* returned outfname) and the files it left: the calls made and the files after them
Derive(raised, outfname, f, gdalRaises, printFails) ==
    LET t == [NoTest EXCEPT !.ran = TRUE, !.outfname = outfname, !.slope_arg = outfname]
        stop(r, stage) == [r EXCEPT !.raised = TRUE, !.stage = stage]
        t2 == [t EXCEPT !.aspect_arg = outfname]
        t3 == [t2 EXCEPT !.plot_arg = outfname]
        slope == SlopeName(outfname.s) :> [kind |-> "slope", of |-> outfname.s]
        aspect == AspectName(outfname.s) :> [kind |-> "aspect", of |-> outfname.s]
    IN IF raised
       THEN [test |-> stop([NoTest EXCEPT !.ran = TRUE], "getwcs_dem"), files |-> f]
       ELSE IF printFails = "print250"
       THEN [test |-> stop([NoTest EXCEPT !.ran = TRUE, !.outfname = outfname], "print"),
             files |-> f]
       ELSE IF outfname = False
       THEN \* os.path.basename(False) raises TypeError inside dem2slope
            [test |-> stop(t, "dem2slope"), files |-> f]
       ELSE IF ~Readable(f, outfname.s)
       THEN \* gdal cannot read the file: it raises or reports nothing, as configured
            IF gdalRaises \/ printFails = "print214"
            THEN [test |-> stop(t, "dem2slope"), files |-> f]
            ELSE IF printFails = "print232"
            THEN [test |-> stop(t2, "dem2aspect"), files |-> f]
            ELSE [test |-> stop(t3, "plot_raster"), files |-> f]
       ELSE IF printFails = "print214"
       THEN [test |-> stop(t, "dem2slope"), files |-> slope @@ f]
       ELSE IF printFails = "print232"
       THEN [test |-> stop(t2, "dem2aspect"), files |-> slope @@ aspect @@ f]
       ELSE [test |-> [t3 EXCEPT !.stage = "done"], files |-> slope @@ aspect @@ f]

(* ------------------------------- actions ------------------------------- *)

\* a download that an earlier run of the program may have left behind
Earlier == Outfname(Flat, <<"D", " ", "G">>, DateOf(1)) :> Complete(0)

\* before the first call: the output directories are missing, or an earlier
\* run has left its download
Init ==
    /\ content \in Contents
    /\ today = 1
    /\ ncalls = 0
    /\ \E left \in {<<>>, Earlier} :
         /\ files = left
         /\ dirs = {<<".">>} \cup (IF left = <<>> THEN {} ELSE Makedirs(Flat))
    /\ last = NoCall
    /\ prev = NoCall
    /\ cap = NoCap
    /\ test = NoTest
    /\ nm = NoName

\* prev keeps the call before the last one when that call had the same arguments
\* on the same UTC date (the pair idempotence speaks of), and NoCall otherwise
Precedes(a) == IF last.called /\ last.args = a /\ last.day = today THEN last ELSE NoCall

\* a call of getwcs_dem with arguments a, the environment failing it at step fault
Getwcs_dem ==
    /\ ncalls < MaxCalls
    /\ \E a \in Args, fault \in Faults :
         \E k \in FailurePoints(a, fault) :
         \E o \in GetwcsDem(a, fault, k) :
            /\ last' = o.rec
            /\ prev' = Precedes(a)
            /\ dirs' = o.dirs
            /\ files' = o.files
    /\ ncalls' = ncalls + 1
    /\ UNCHANGED <<content, today, cap, test, nm>>

\* midnight UTC passes (before a call that can still observe it)
Tick ==
    /\ ncalls < MaxCalls
    /\ today < MaxDay
    /\ today' = today + 1
    /\ UNCHANGED <<content, dirs, files, last, prev, ncalls, cap, test, nm>>

\* the service advertises other layers or titles (before a call that can
\* still observe it)
ServiceChange ==
    /\ ncalls < MaxCalls
    /\ \E c \in Contents \ {content} : content' = c
    /\ UNCHANGED <<today, dirs, files, last, prev, ncalls, cap, test, nm>>

Next ==
    \/ Getwcs_dem
    \/ Tick
    \/ ServiceChange

Spec == Init /\ [][Next]_vars

(* ------------- get_capabilities and the end-to-end scenario ------------ *)

\* test_getwcs_dem is between its two connections: get_capabilities has returned
\* and getwcs_dem is not yet called
Testing == ~test.ran /\ test.stage = "getwcs_dem"

\* a call of get_capabilities
Get_capabilities ==
    /\ ~Testing
    /\ \E fault \in CapFaults \cup {"none"} : cap' = GetCapabilities(fault)
    /\ UNCHANGED <<content, today, dirs, files, last, prev, ncalls, test, nm>>

\* test_getwcs_dem when get_capabilities raises: nothing after line 245 runs
Test_capabilities_fail ==
    /\ ~Testing
    /\ \E fault \in CapFaults : cap' = GetCapabilities(fault)
    /\ test' = [NoTest EXCEPT !.ran = TRUE, !.raised = TRUE, !.stage = "get_capabilities"]
    /\ UNCHANGED <<content, today, dirs, files, last, prev, ncalls, nm>>

\* test_getwcs_dem up to the return of get_capabilities, lines 240-245
Test_get_capabilities ==
    /\ ~Testing
    /\ ncalls < MaxCalls
    /\ cap' = GetCapabilities("none")
    /\ test' = [NoTest EXCEPT !.stage = "getwcs_dem"]
    /\ UNCHANGED <<content, today, dirs, files, last, prev, ncalls, nm>>

\* test_getwcs_dem from its second connection on, lines 247-254; the service
\* and the clock may have changed since get_capabilities returned
Test_getwcs_dem ==
    /\ Testing
    /\ ncalls < MaxCalls
    /\ \E fault \in Faults :
         \E k \in FailurePoints(TestArgs, fault) :
         \E o \in GetwcsDem(TestArgs, fault, k) :
         \E d \in {Derive(o.rec.raised, o.rec.ret, o.files, gdalRaises, printFails) :
                    gdalRaises \in BOOLEAN, printFails \in TestPrints} :
            /\ last' = o.rec
            /\ prev' = Precedes(TestArgs)
            /\ dirs' = o.dirs
            /\ files' = d.files
            /\ test' = d.test
    /\ ncalls' = ncalls + 1
    /\ UNCHANGED <<content, today, cap, nm>>

\* test_getwcs_dem when its print of line 247 fails: getwcs_dem is never called
Test_print_fail ==
    /\ Testing
    /\ test' = [NoTest EXCEPT !.ran = TRUE, !.raised = TRUE, !.stage = "print"]
    /\ UNCHANGED <<content, today, dirs, files, last, prev, ncalls, cap, nm>>

NextTest ==
    \/ Get_capabilities
    \/ Test_capabilities_fail
    \/ Test_get_capabilities
    \/ Test_print_fail
    \/ Test_getwcs_dem
    \/ Tick
    \/ ServiceChange

\* the scenario starts where nothing has been downloaded
InitTest ==
    /\ content \in Contents
    /\ today = 1
    /\ dirs = {<<".">>}
    /\ files = <<>>
    /\ last = NoCall
    /\ prev = NoCall
    /\ ncalls = 0
    /\ cap = NoCap
    /\ test = NoTest
    /\ nm = NoName

SpecTest == InitTest /\ [][NextTest]_vars

(* ---------------- dem2slope / dem2aspect on their own ------------------ *)

InitNames ==
    /\ content \in Contents
    /\ today = 1
    /\ dirs = {<<".">>}
    /\ files = <<>>
    /\ last = NoCall
    /\ prev = NoCall
    /\ ncalls = 0
    /\ cap = NoCap
    /\ test = NoTest
    /\ \E X \in StringsUpTo(MaxX) :
         nm = [NoName EXCEPT !.fname_dem = X \o <<SLASH>> \o DemTif]

Dem2slope ==
    /\ nm.op = "none"
    /\ \E fault \in NameFaults : nm' = Dem2slopeCall(nm.fname_dem, fault)
    /\ UNCHANGED <<content, today, dirs, files, last, prev, ncalls, cap, test>>

Dem2aspect ==
    /\ nm.op = "none"
    /\ \E fault \in NameFaults : nm' = Dem2aspectCall(nm.fname_dem, fault)
    /\ UNCHANGED <<content, today, dirs, files, last, prev, ncalls, cap, test>>

NextNames == Dem2slope \/ Dem2aspect

SpecNames == InitNames /\ [][NextNames]_vars

(* ------------------------------- claims -------------------------------- *)

\* C1 (as stated): getwcs_dem never raises; whatever step fails, the call
\* returns False.  Refuted: os.makedirs runs before the try block, and the
\* print of the except block can itself fail.
C1_NeverRaises == last.called => ~last.raised

\* C2 (as stated): two consecutive calls with identical parameters on the same
\* UTC date perform exactly one coverage transfer in total, and the second
\* returns the path the first returned.
C2_ExactlyOneTransfer ==
    prev.called =>
        /\ Len(prev.reqs) + Len(last.reqs) = 1
        /\ last.ret.py = "str"
        /\ last.ret = prev.ret

\* C2 (amended): when the first of two such calls returns a path and the second
\* connects and is given the same layer title, the second issues no coverage
\* request; it returns the same path if its print succeeds, and False or an
\* error if not.  The pair issues one request when the first call wrote the
\* file and none when the file was there before it.
C2_Idempotent ==
    (prev.called /\ prev.ret.py = "str" /\ last.layername = prev.layername) =>
        /\ last.reqs = <<>>
        /\ ~last.print_failed => (~last.raised /\ last.ret = prev.ret)
        /\ last.print_failed => (last.raised \/ last.ret = False)
        /\ prev.ret.s \in DOMAIN files
        /\ Len(prev.reqs) + Len(last.reqs) =
             (IF files[prev.ret.s].by = ncalls - 1 THEN 1 ELSE 0)

C2_Witness ==
    /\ prev.called
    /\ prev.ret.py = "str"
    /\ Len(prev.reqs) = 1
    /\ last.ret = prev.ret
    /\ last.reqs = <<>>
    /\ files[prev.ret.s] = Complete(1)

\* the other case of C2: the file was there before the first call of the pair
C2_AlreadyThere ==
    /\ prev.called
    /\ prev.ret.py = "str"
    /\ prev.reqs = <<>>
    /\ last.ret = prev.ret
    /\ last.reqs = <<>>
    /\ files[prev.ret.s] = Complete(0)

\* C3: a call of getwcs_dem leaves every existing file as it was, and when the
\* file at the path it computes already exists it issues no coverage request.
C3_NoOverwrite ==
    [][ncalls' = ncalls + 1 =>
         /\ \A p \in DOMAIN files : p \in DOMAIN files' /\ files'[p] = files[p]
         /\ (last'.outfname.py = "str" /\ last'.outfname.s \in DOMAIN files)
                => last'.reqs = <<>>]_vars

C3_Witness ==
    /\ last.called
    /\ last.outfname.py = "str"
    /\ last.outfname.s \in DOMAIN files
    /\ files[last.outfname.s].by < ncalls
    /\ files[last.outfname.s].kind = "partial"
    /\ last.ret = last.outfname

\* C4: every coverage request carries identifier '1', GeoTIFF, the bbox and crs
\* passed in, and resx = resy = resolution / 3600, where a resolution of None
\* counts as 1: the request of a None call is the request of a call with 1.
C4_ResolutionSubstitution ==
    (last.called /\ last.reqs # <<>>) =>
        LET r == last.reqs[1]
            n == IF last.args.resolution.isNone THEN 1 ELSE last.args.resolution.n
        IN /\ r.identifier = "1"
           /\ r.format = "GeoTIFF"
           /\ r.bbox = last.args.bbox
           /\ r.crs = last.args.crs
           /\ r.resy = r.resx
           /\ r.resx[1] * 3600 = n * r.resx[2]
           /\ last.args.resolution \in {NoneRes, Num(1)} => r.resx = <<1, 3600>>

C4_Witness ==
    /\ last.called
    /\ last.args.resolution.isNone
    /\ last.reqs # <<>>
    /\ last.reqs[1].resx = <<1, 3600>>

\* the X of a name X/dem.tif
DirPart(fname_dem) == SubSeq(fname_dem, 1, Len(fname_dem) - Len(DemTif) - 1)

\* C5 (as stated): for any X, dem2slope("X/dem.tif") is "X/Slope_dem.tif" and
\* dem2aspect("X/dem.tif") is "X/Aspect_dem.tif".
C5_AnyX ==
    LET X == DirPart(nm.fname_dem)
    IN /\ (nm.op = "slope" /\ ~nm.raised) => nm.out = X \o <<SLASH>> \o SlopePrefix \o DemTif
       /\ (nm.op = "aspect" /\ ~nm.raised)
            => nm.out = X \o <<SLASH>> \o AspectPrefix \o DemTif

\* C5 (amended): that holds for every X that does not end in '/' or is made of
\* '/' only; from any other X the trailing slashes are dropped first.
C5_NoTrailingSlash ==
    LET X == DirPart(nm.fname_dem)
        kept == \/ X = <<>>
                \/ X[Len(X)] # SLASH
                \/ \A i \in 1..Len(X) : X[i] = SLASH
        dir == IF kept THEN X
               ELSE SubSeq(X, 1, CHOOSE i \in 1..Len(X) :
                                    /\ X[i] # SLASH
                                    /\ \A j \in (i + 1)..Len(X) : X[j] = SLASH)
        name == dir \o <<SLASH>> \o (IF nm.op = "slope" THEN SlopePrefix ELSE AspectPrefix)
                    \o DemTif
    IN nm.op # "none" =>
         /\ nm.gdal = <<name, nm.fname_dem>>
         /\ ~nm.raised => nm.out = name
         /\ nm.raised => nm.out = <<>>

C5_Witness ==
    /\ nm.op = "slope"
    /\ ~nm.raised
    /\ nm.fname_dem = <<".", "/", "a", "/">> \o DemTif
    /\ nm.out = <<".", "/", "a", "/">> \o SlopePrefix \o DemTif

\* C6: the path getwcs_dem computes is the output directory joined with the
\* title (spaces as underscores), '_', the UTC date as YYYY-MM-DD and '.tif';
\* two calls in a row with the same directory, title and date compute the same
\* path whatever bbox, resolution and crs they pass.
C6_FilenameDeterminism ==
    /\ [](last.outfname.py = "str" =>
            /\ (last.args.outpath = Flat /\ last.layername = <<"D", " ", "G">> /\ last.day = 1)
                 => last.outfname.s = <<"o", "/", "D", "_", "G", "_", "2", "0", "2", "2", "-",
                                        "0", "1", "-", "0", "9", ".", "t", "i", "f">>
            /\ (last.args.outpath = Nested /\ last.layername = <<"E", " ", "1", " ", "s">>
                  /\ last.day = 2)
                 => last.outfname.s = <<"q", "/", "r", "/", "E", "_", "1", "_", "s", "_",
                                        "2", "0", "2", "2", "-", "0", "1", "-", "1", "0",
                                        ".", "t", "i", "f">>
            /\ \A i \in 1..Len(last.outfname.s) : last.outfname.s[i] # " ")
    /\ [][(/\ ncalls' = ncalls + 1
           /\ last.outfname.py = "str"
           /\ last'.outfname.py = "str"
           /\ last'.args.outpath = last.args.outpath
           /\ last'.layername = last.layername
           /\ last'.day = last.day)
          => last'.outfname = last.outfname]_vars

C6_Witness ==
    /\ ncalls = 2
    /\ prev = NoCall
    /\ last.args = Call(Flat, Mercator, Num(100))
    /\ last.outfname.py = "str"
    /\ last.outfname.s = <<"o", "/", "D", "_", "G", "_", "2", "0", "2", "2", "-",
                           "0", "1", "-", "0", "9", ".", "t", "i", "f">>
    /\ last.outfname.s \in DOMAIN files
    /\ files[last.outfname.s].by = 1

\* C7 (as stated): after any call against a missing output directory the
\* directory exists and its creation caused no error (an error of os.makedirs
\* is the one that ends a call before any connection).  Refuted: os.makedirs
\* can fail, the directory is then still missing and the error leaves the call.
C7_DirAlwaysCreated ==
    (last.called /\ last.newdir) =>
        /\ DirOf(last.args.outpath) \in dirs
        /\ last.conns > 0

\* C8 (as stated): whenever getwcs_dem returns a path, the file there holds the
\* complete body of a coverage response.  Refuted: a file left empty or
\* partial by a failed call is reported as downloaded by the next call.
C8_PathMeansComplete ==
    (last.called /\ last.ret.py = "str") => Readable(files, last.ret.s)

\* C9 (as stated): in test_getwcs_dem, dem2slope, dem2aspect and plot_raster
\* are never handed the failure sentinel False.
C9_NeverFalse ==
    test.ran => (test.slope_arg # False /\ test.aspect_arg # False /\ test.plot_arg # False)

\* C10: get_capabilities connects once; when the connection or a print fails it raises
\* and returns nothing; otherwise its lists have one entry per key, entry i
\* being the title, abstract and bounding box of the i-th layer reported.
C10_CapabilitiesInOrder ==
    cap.called =>
        /\ cap.conns = 1
        /\ cap.raised => (cap.keys = <<>> /\ cap.title_list = <<>>)
        /\ ~cap.raised =>
             /\ Len(cap.keys) = Len(cap.service)
             /\ Len(cap.title_list) = Len(cap.keys)
             /\ Len(cap.description_list) = Len(cap.keys)
             /\ Len(cap.bbox_list) = Len(cap.keys)
             /\ \A i \in 1..Len(cap.keys) :
                  /\ cap.keys[i] = cap.service[i].key
                  /\ cap.title_list[i] = cap.service[i].title
                  /\ cap.description_list[i] = cap.service[i].abstract
                  /\ cap.bbox_list[i] = cap.service[i].bbox

C10_Witness ==
    /\ cap.called
    /\ ~cap.raised
    /\ cap.keys = <<"0", "1">>
    /\ cap.title_list = << <<"X">>, <<"E", " ", "1", " ", "s">> >>

====
